---------------------------- MODULE Spec2Model ----------------------------
(***************************************************************************)
(* HeadHunter MCP server: the tool catalog (TOOLS), the two request        *)
(* handlers installed by HeadHunterMCPServer.setupHandlers and the six     *)
(* tool entry points they route to.                                        *)
(*                                                                         *)
(* A text is a sequence of fragments (strings); the fragments that depend  *)
(* on the caller's arguments are kept apart from the fixed template text,  *)
(* so "the text contains s" is "s is one of its fragments".                *)
(***************************************************************************)
EXTENDS Integers, Sequences, FiniteSets, TLC

(***************************************************************************)
(* Bounds of the model.                                                    *)
(***************************************************************************)
MaxListLen == 2
MaxDay == 1
MaxInFlight == 2
MaxScrapes == 2
MaxClockSteps == 4

(***************************************************************************)
(* JavaScript values that a JSON argument can hold.                        *)
(***************************************************************************)
Undef == [t |-> "undefined"]
Null == [t |-> "null"]
Str(s) == [t |-> "string", v |-> s]
Num(n) == [t |-> "number", v |-> n]
Arr(a) == [t |-> "array", v |-> a]

RECURSIVE Join(_, _)
\* Array.prototype.join on an array of strings, as fragments.
Join(a, sep) ==
  IF Len(a) = 0 THEN <<>>
  ELSE IF Len(a) = 1 THEN <<a[1]>>
  ELSE <<a[1], sep>> \o Join(Tail(a), sep)

\* String(v), the conversion a template literal applies to ${v}.
ToStringJS(v) ==
  CASE v.t = "undefined" -> <<"undefined">>
    [] v.t = "null" -> <<"null">>
    [] v.t = "string" -> <<v.v>>
    [] v.t = "number" -> <<ToString(v.v)>>
    [] v.t = "array" -> Join(v.v, ",")

\* The string a fragment sequence stands for is empty.
IsEmptyText(txt) == \A i \in 1..Len(txt) : txt[i] = ""

\* ToBoolean(v) is false: the left operand of || is skipped.
Falsy(v) ==
  \/ v.t \in {"undefined", "null"}
  \/ v.t = "number" /\ v.v = 0
  \/ v.t = "string" /\ v.v = ""

Contains(txt, s) == \E i \in 1..Len(txt) : txt[i] = s

(***************************************************************************)
(* TOOLS: the advertised catalog, in declaration order.                    *)
(***************************************************************************)
\* A string parameter that always declares a default.
PString_DefaultsEmpty(d) ==
  [type |-> "string", enum |-> <<>>, default |-> Str("")]

PString(d) == [type |-> "string", enum |-> <<>>, default |-> d]
\* An enum parameter that loses its declared default.
PEnum_NoDefault(vals, d) == [type |-> "string", enum |-> vals, default |-> Undef]

PEnum(vals, d) == [type |-> "string", enum |-> vals, default |-> d]
PNumber(d) == [type |-> "number", enum |-> <<>>, default |-> d]
PArray(d) == [type |-> "array", enum |-> <<>>, default |-> d]

TOOLS ==
  << [name |-> "research_company",
      params |-> <<"company", "role", "focus_areas">>,
      properties |->
        [company |-> PString(Undef),
         role |-> PString(Str("VP Engineering")),
         focus_areas |-> PArray(Arr(<<"overview", "technology",
                                      "business_model", "challenges">>))],
      required |-> <<"company">>],
     [name |-> "analyze_revenue_engine",
      params |-> <<"company", "business_model", "focus">>,
      properties |->
        [company |-> PString(Undef),
         business_model |-> PString(Undef),
         focus |-> PEnum(<<"cost_optimization", "growth_levers",
                           "risk_assessment", "comprehensive">>,
                         Str("comprehensive"))],
      required |-> <<"company">>],
     [name |-> "linkedin_intelligence",
      params |-> <<"company", "role", "export_data", "research_depth">>,
      properties |->
        [company |-> PString(Undef),
         role |-> PString(Undef),
         export_data |-> PString(Undef),
         research_depth |-> PEnum(<<"basic", "detailed", "comprehensive">>,
                                  Str("detailed"))],
      required |-> <<"company">>],
     [name |-> "interview_preparation",
      params |-> <<"company", "role", "interview_type", "focus_areas">>,
      properties |->
        [company |-> PString(Undef),
         role |-> PString(Undef),
         interview_type |-> PEnum(<<"technical", "behavioral", "case_study",
                                    "comprehensive">>, Str("comprehensive")),
         focus_areas |-> PArray(Arr(<<"architecture", "leadership",
                                      "strategy", "culture">>))],
      required |-> <<"company", "role">>],
     [name |-> "executive_brief",
      params |-> <<"company", "role", "application_stage",
                   "include_sections">>,
      properties |->
        [company |-> PString(Undef),
         role |-> PString(Undef),
         application_stage |-> PEnum(<<"research", "application",
                                       "interview", "negotiation">>,
                                     Str("research")),
         include_sections |-> PArray(Arr(<<"company_overview",
                                           "strategic_fit", "key_challenges",
                                           "interview_strategy",
                                           "next_steps">>))],
      required |-> <<"company", "role">>],
     [name |-> "create_30_60_90_plan",
      params |-> <<"company", "role", "team_size", "key_challenges",
                   "focus_style">>,
      properties |->
        [company |-> PString(Undef),
         role |-> PString(Undef),
         team_size |-> PNumber(Undef),
         key_challenges |-> PArray(Undef),
         focus_style |-> PEnum(<<"transformation", "growth", "optimization",
                                 "startup">>, Str("growth"))],
      required |-> <<"company", "role">>] >>

Range(s) == {s[i] : i \in 1..Len(s)}

ToolNames == {TOOLS[i].name : i \in 1..Len(TOOLS)}

Tool(n) == CHOOSE d \in Range(TOOLS) : d.name = n

(***************************************************************************)
(* Argument bags (request.params.arguments) and destructuring.             *)
(***************************************************************************)
BagUndefined == [kind |-> "undefined"]
BagNull == [kind |-> "null"]
BagPrimitive == [kind |-> "primitive"]
BagObject(f) == [kind |-> "object", fields |-> f]

\* args.k: a key the object lacks, and any key of a primitive, is undefined.
Get(args, k) ==
  IF args.kind = "object"
  THEN IF k \in DOMAIN args.fields THEN args.fields[k] ELSE Undef
  ELSE Undef

\* const { k = d } = args: the default replaces undefined only.
OrDefault(v, d) == IF v.t = "undefined" THEN d ELSE v

\* A destructuring that also rejects a bag holding an undeclared key.
DestructureThrows_RejectsUndeclared(args) ==
  \/ args.kind \in {"undefined", "null"}
  \/ args.kind = "object" /\ args.fields["extra"] # Undef

\* const { ... } = args throws a TypeError when args is undefined or null.
DestructureThrows(args) == args.kind \in {"undefined", "null"}

DestructureMessage(args) ==
  <<"Cannot destructure property '", "company", "' of '", "args",
    "' as it is ", args.kind, ".">>

\* What a function call ends with.
\* isError FALSE stands for a result without the isError key, which the
\* protocol reads as false.
Returned(txt, err) ==
  [kind |-> "result", content |-> <<[type |-> "text", text |-> txt]>>,
   isError |-> err]
Thrown(class, code, msg) ==
  [kind |-> "thrown", class |-> class, code |-> code, message |-> msg]
Ok(txt) == [ok |-> TRUE, text |-> txt]
Fail(msg) == [ok |-> FALSE, message |-> msg]

\* The TypeError message of calling x.m() on a value without method m.
NoMethodMessage(v, expr, method) ==
  IF v.t \in {"undefined", "null"}
  THEN <<"Cannot read properties of ", v.t, " (reading '", method, "')">>
  ELSE <<expr, ".", method, " is not a function">>

(***************************************************************************)
(* The clock: the UTC day the process is in.                               *)
(***************************************************************************)
VARIABLE today

Days == 0..MaxDay

\* new Date().toISOString().split('T')[0] on day d.
DateISO(d) ==
  CASE d = 0 -> "2026-11-04"
    [] d = 1 -> "2026-11-05"
    [] d = 2 -> "2026-11-06"
    [] OTHER -> "2026-11-07"

\* A report stamped with a fixed day instead of the day it is made.
currentDate_Epoch == DateISO(0)

currentDate == DateISO(today)

(***************************************************************************)
(* CompanyResearchTool                                                     *)
(***************************************************************************)
\* company.toLowerCase().replace(/\s+/g, '') on the company names used here.
LowerCompact(s) ==
  CASE s = "Acme" -> "acme"
    [] s = "Blue Sky" -> "bluesky"
    [] OTHER -> s

gatherCompanyData(company) ==
  IF company.t # "string"
  THEN Fail(NoMethodMessage(company, "company", "toLowerCase"))
  ELSE Ok(<<company.v, "https://", LowerCompact(company.v), ".com",
            currentDate>>)

generateResearchReport(data, role, focusAreas) ==
  Ok(<<"# Company Research Report: ", data[1],
       "**Research Date**: ", data[5], "**Target Role**: ">>
     \o ToStringJS(role)
     \o <<"- **Website**: ", data[2], data[3], data[4]>>)

\* A destructuring whose role default drifted from the catalog's.
CompanyResearchLocals_RoleCTO(args) ==
  [company |-> Get(args, "company"),
   role |-> OrDefault(Get(args, "role"), Str("CTO")),
   focus_areas |-> OrDefault(Get(args, "focus_areas"),
                     Arr(<<"overview", "technology", "business_model",
                           "challenges">>))]

CompanyResearchLocals(args) ==
  [company |-> Get(args, "company"),
   role |-> OrDefault(Get(args, "role"), Str("VP Engineering")),
   focus_areas |-> OrDefault(Get(args, "focus_areas"),
                     Arr(<<"overview", "technology", "business_model",
                           "challenges">>))]

\* A catch block whose text leaves out the company.
CompanyResearchTool_execute_NoCompany(args) ==
  IF DestructureThrows(args)
  THEN Thrown("TypeError", "", DestructureMessage(args))
  ELSE LET l == CompanyResearchLocals(args)
           data == gatherCompanyData(l.company)
           report == IF data.ok
                     THEN generateResearchReport(data.text, l.role,
                                                 l.focus_areas)
                     ELSE data
       IN IF report.ok
          THEN Returned(report.text, FALSE)
          ELSE Returned(<<"Error researching ">> \o <<": ">>
                        \o report.message, TRUE)

CompanyResearchTool_execute(args) ==
  IF DestructureThrows(args)
  THEN Thrown("TypeError", "", DestructureMessage(args))
  ELSE LET l == CompanyResearchLocals(args)
           data == gatherCompanyData(l.company)
           report == IF data.ok
                     THEN generateResearchReport(data.text, l.role,
                                                 l.focus_areas)
                     ELSE data
       IN IF report.ok
          THEN Returned(report.text, FALSE)
          ELSE Returned(<<"Error researching ">> \o ToStringJS(l.company)
                        \o <<": ">> \o report.message, TRUE)

(***************************************************************************)
(* RevenueEngineTool                                                       *)
(***************************************************************************)
\* Property names every object literal inherits from Object.prototype.
ObjectPrototypeKeys ==
  {"constructor", "toString", "valueOf", "hasOwnProperty", "__proto__"}

\* obj[key] for an object literal with the given own keys: "own", or
\* "inherited" (a function or object, truthy, not an array), or "absent".
Lookup(ownKeys, key) ==
  LET k == ToStringJS(key)
  IN IF Len(k) = 1 /\ k[1] \in ownKeys THEN "own"
     ELSE IF Len(k) = 1 /\ k[1] \in ObjectPrototypeKeys THEN "inherited"
     ELSE "absent"

RevenueModels == {"B2B SaaS", "Marketplace", "E-commerce"}

\* models[businessModel] || models["B2B SaaS"]
getRevenueStreams(businessModel) ==
  CASE Lookup(RevenueModels, businessModel) = "own" ->
         [array |-> TRUE, of |-> businessModel.v]
    [] Lookup(RevenueModels, businessModel) = "inherited" ->
         [array |-> FALSE, of |-> "Object.prototype"]
    [] OTHER -> [array |-> TRUE, of |-> "B2B SaaS"]

\* mappings[businessModel] || mappings["B2B SaaS"]
getSystemMappings(businessModel) ==
  CASE Lookup({"B2B SaaS"}, businessModel) = "own" ->
         [array |-> TRUE, of |-> businessModel.v]
    [] Lookup({"B2B SaaS"}, businessModel) = "inherited" ->
         [array |-> FALSE, of |-> "Object.prototype"]
    [] OTHER -> [array |-> TRUE, of |-> "B2B SaaS"]

\* flows[businessModel] || flows["B2B SaaS"]
getRevenueFlow(businessModel) ==
  CASE Lookup(RevenueModels, businessModel) = "own" -> businessModel.v
    [] Lookup(RevenueModels, businessModel) = "inherited" ->
         "Object.prototype"
    [] OTHER -> "B2B SaaS"

generateRevenueEngineAnalysis(company, businessModel, focus) ==
  LET revenueStreams == getRevenueStreams(businessModel)
      systemMappings == getSystemMappings(businessModel)
  IN IF ~revenueStreams.array
     THEN Fail(<<"revenueStreams", ".", "map", " is not a function">>)
     ELSE IF ~systemMappings.array
     THEN Fail(<<"systemMappings", ".", "map", " is not a function">>)
     ELSE Ok(<<"# Revenue Engine Mapping: ">> \o ToStringJS(company)
             \o <<"**Analysis Date**: ", currentDate>>
             \o <<"**Business Model**: ">> \o ToStringJS(businessModel)
             \o <<"**Focus Area**: ">> \o ToStringJS(focus)
             \o <<"streams:", revenueStreams.of,
                  "flow:", getRevenueFlow(businessModel),
                  "systems:", systemMappings.of>>)

RevenueEngineLocals(args) ==
  [company |-> Get(args, "company"),
   business_model |-> OrDefault(Get(args, "business_model"),
                                Str("B2B SaaS")),
   focus |-> OrDefault(Get(args, "focus"), Str("comprehensive"))]

\* An entry point that generates its analysis outside any try block.
RevenueEngineTool_execute_NoTry(args) ==
  IF DestructureThrows(args)
  THEN Thrown("TypeError", "", DestructureMessage(args))
  ELSE LET l == RevenueEngineLocals(args)
           analysis == generateRevenueEngineAnalysis(l.company,
                         l.business_model, l.focus)
       IN IF analysis.ok
          THEN Returned(analysis.text, FALSE)
          ELSE Thrown("TypeError", "", analysis.message)

RevenueEngineTool_execute(args) ==
  IF DestructureThrows(args)
  THEN Thrown("TypeError", "", DestructureMessage(args))
  ELSE LET l == RevenueEngineLocals(args)
           analysis == generateRevenueEngineAnalysis(l.company,
                         l.business_model, l.focus)
       IN IF analysis.ok
          THEN Returned(analysis.text, FALSE)
          ELSE Returned(<<"Error analyzing revenue engine for ">>
                        \o ToStringJS(l.company) \o <<": ">>
                        \o analysis.message, TRUE)

(***************************************************************************)
(* DataSources.gatherLinkedInData: the source methods it enters. No tool   *)
(* calls it.                                                               *)
(***************************************************************************)
gatherLinkedInData(company, exportData) ==
  IF ~Falsy(exportData)
  THEN <<"DataSources.parseLinkedInExport">>
  ELSE <<"DataSources.getPublicLinkedInData">>

(***************************************************************************)
(* LinkedInIntelligenceTool                                                *)
(***************************************************************************)
generateLinkedInIntelligence(company, role, depth) ==
  Ok(<<"# LinkedIn Intelligence Report: ">> \o ToStringJS(company)
     \o <<"**Analysis Date**: ", currentDate>>
     \o <<"**Target Role**: ">> \o ToStringJS(role)
     \o <<"**Research Depth**: ">> \o ToStringJS(depth))

LinkedInIntelligenceLocals(args) ==
  [company |-> Get(args, "company"),
   role |-> OrDefault(Get(args, "role"), Str("VP Engineering")),
   export_data |-> Get(args, "export_data"),
   research_depth |-> OrDefault(Get(args, "research_depth"),
                                Str("detailed"))]

LinkedInIntelligenceTool_execute(args) ==
  IF DestructureThrows(args)
  THEN Thrown("TypeError", "", DestructureMessage(args))
  ELSE LET l == LinkedInIntelligenceLocals(args)
           intelligence == generateLinkedInIntelligence(l.company, l.role,
                             l.research_depth)
       IN IF intelligence.ok
          THEN Returned(intelligence.text, FALSE)
          ELSE Returned(<<"Error generating LinkedIn intelligence for ">>
                        \o ToStringJS(l.company) \o <<": ">>
                        \o intelligence.message, TRUE)

(***************************************************************************)
(* InterviewPrepTool                                                       *)
(***************************************************************************)
generateInterviewPreparation(company, role, type, focusAreas) ==
  IF focusAreas.t # "array"
  THEN Fail(NoMethodMessage(focusAreas, "focusAreas", "join"))
  ELSE Ok(<<"# Interview Preparation Guide: ">> \o ToStringJS(role)
          \o <<" at ">> \o ToStringJS(company)
          \o <<"**Preparation Date**: ", currentDate>>
          \o <<"**Interview Type**: ">> \o ToStringJS(type)
          \o <<"**Focus Areas**: ">> \o Join(focusAreas.v, ", "))

InterviewPrepLocals(args) ==
  [company |-> Get(args, "company"),
   role |-> Get(args, "role"),
   interview_type |-> OrDefault(Get(args, "interview_type"),
                                Str("comprehensive")),
   focus_areas |-> OrDefault(Get(args, "focus_areas"),
                     Arr(<<"architecture", "leadership", "strategy",
                           "culture">>))]

\* A catch block that returns its text without the isError flag.
InterviewPrepTool_execute_NoFlag(args) ==
  IF DestructureThrows(args)
  THEN Thrown("TypeError", "", DestructureMessage(args))
  ELSE LET l == InterviewPrepLocals(args)
           preparation == generateInterviewPreparation(l.company, l.role,
                            l.interview_type, l.focus_areas)
       IN IF preparation.ok
          THEN Returned(preparation.text, FALSE)
          ELSE Returned(<<"Error generating interview preparation for ">>
                        \o ToStringJS(l.company) \o <<": ">>
                        \o preparation.message, FALSE)

InterviewPrepTool_execute(args) ==
  IF DestructureThrows(args)
  THEN Thrown("TypeError", "", DestructureMessage(args))
  ELSE LET l == InterviewPrepLocals(args)
           preparation == generateInterviewPreparation(l.company, l.role,
                            l.interview_type, l.focus_areas)
       IN IF preparation.ok
          THEN Returned(preparation.text, FALSE)
          ELSE Returned(<<"Error generating interview preparation for ">>
                        \o ToStringJS(l.company) \o <<": ">>
                        \o preparation.message, TRUE)

\* A plan template that prints the default style whatever was asked.
generate30_60_90Plan_DefaultStyle(company, role, teamSize, challenges0, style0) ==
  LET challenges == OrDefault(challenges0, Arr(<<>>))
  IN IF challenges.t # "array"
     THEN Fail(NoMethodMessage(challenges, "challenges", "join"))
     ELSE Ok(<<"# 30-60-90 Day Plan: ">> \o ToStringJS(role)
             \o <<" at ">> \o ToStringJS(company)
             \o <<"**Plan Date**: ", currentDate>>
             \o <<"**Focus Style**: ", "growth">>
             \o <<"**Team Size**: ">>
             \o (IF Falsy(teamSize) THEN <<"TBD">> ELSE ToStringJS(teamSize))
             \o <<"**Key Challenges**: ">>
             \o (IF IsEmptyText(Join(challenges.v, ", "))
                 THEN <<"To be assessed">>
                 ELSE Join(challenges.v, ", ")))

\* The parameter defaults (challenges = [], style = "growth") replace
\* undefined again; teamSize || "TBD"; challenges.join(", ") || "To be
\* assessed".
generate30_60_90Plan(company, role, teamSize, challenges0, style0) ==
  LET challenges == OrDefault(challenges0, Arr(<<>>))
      style == OrDefault(style0, Str("growth"))
  IN IF challenges.t # "array"
     THEN Fail(NoMethodMessage(challenges, "challenges", "join"))
     ELSE Ok(<<"# 30-60-90 Day Plan: ">> \o ToStringJS(role)
             \o <<" at ">> \o ToStringJS(company)
             \o <<"**Plan Date**: ", currentDate>>
             \o <<"**Focus Style**: ">> \o ToStringJS(style)
             \o <<"**Team Size**: ">>
             \o (IF Falsy(teamSize) THEN <<"TBD">> ELSE ToStringJS(teamSize))
             \o <<"**Key Challenges**: ">>
             \o (IF IsEmptyText(Join(challenges.v, ", "))
                 THEN <<"To be assessed">>
                 ELSE Join(challenges.v, ", ")))

Plan30_60_90Locals(args) ==
  [company |-> Get(args, "company"),
   role |-> Get(args, "role"),
   team_size |-> Get(args, "team_size"),
   key_challenges |-> OrDefault(Get(args, "key_challenges"), Arr(<<>>)),
   focus_style |-> OrDefault(Get(args, "focus_style"), Str("growth"))]

InterviewPrepTool_create30_60_90Plan(args) ==
  IF DestructureThrows(args)
  THEN Thrown("TypeError", "", DestructureMessage(args))
  ELSE LET l == Plan30_60_90Locals(args)
           plan == generate30_60_90Plan(l.company, l.role, l.team_size,
                     l.key_challenges, l.focus_style)
       IN IF plan.ok
          THEN Returned(plan.text, FALSE)
          ELSE Returned(<<"Error generating 30-60-90 day plan for ">>
                        \o ToStringJS(l.company) \o <<": ">>
                        \o plan.message, TRUE)

(***************************************************************************)
(* ExecutiveBriefTool                                                      *)
(***************************************************************************)
generateExecutiveBrief(company, role, stage, sections) ==
  Ok(<<"# Executive Brief: ">> \o ToStringJS(role)
     \o <<" at ">> \o ToStringJS(company)
     \o <<"**Brief Date**: ", currentDate>>
     \o <<"**Application Stage**: ">> \o ToStringJS(stage))

ExecutiveBriefLocals(args) ==
  [company |-> Get(args, "company"),
   role |-> Get(args, "role"),
   application_stage |-> OrDefault(Get(args, "application_stage"),
                                   Str("research")),
   include_sections |-> OrDefault(Get(args, "include_sections"),
                          Arr(<<"company_overview", "strategic_fit",
                                "key_challenges", "interview_strategy",
                                "next_steps">>))]

ExecutiveBriefTool_execute(args) ==
  IF DestructureThrows(args)
  THEN Thrown("TypeError", "", DestructureMessage(args))
  ELSE LET l == ExecutiveBriefLocals(args)
           brief == generateExecutiveBrief(l.company, l.role,
                      l.application_stage, l.include_sections)
       IN IF brief.ok
          THEN Returned(brief.text, FALSE)
          ELSE Returned(<<"Error generating executive brief for ">>
                        \o ToStringJS(l.company) \o <<": ">>
                        \o brief.message, TRUE)

(***************************************************************************)
(* HeadHunterMCPServer.setupHandlers                                       *)
(***************************************************************************)
\* A switch that matches one name without regard to letter case.
HandlerOf_IgnoreCase(name) ==
  CASE name \in {"research_company", "Research_Company"} ->
         "CompanyResearchTool.execute"
    [] name = "analyze_revenue_engine" -> "RevenueEngineTool.execute"
    [] name = "linkedin_intelligence" -> "LinkedInIntelligenceTool.execute"
    [] name = "interview_preparation" -> "InterviewPrepTool.execute"
    [] name = "executive_brief" -> "ExecutiveBriefTool.execute"
    [] name = "create_30_60_90_plan" -> "InterviewPrepTool.create30_60_90Plan"
    [] OTHER -> "default"

\* The switch on request.params.name (strict equality on the string).
HandlerOf(name) ==
  CASE name = "research_company" -> "CompanyResearchTool.execute"
    [] name = "analyze_revenue_engine" -> "RevenueEngineTool.execute"
    [] name = "linkedin_intelligence" -> "LinkedInIntelligenceTool.execute"
    [] name = "interview_preparation" -> "InterviewPrepTool.execute"
    [] name = "executive_brief" -> "ExecutiveBriefTool.execute"
    [] name = "create_30_60_90_plan" -> "InterviewPrepTool.create30_60_90Plan"
    [] OTHER -> "default"

\* A switch whose plan case calls the other method of InterviewPrepTool.
Execute_PlanCallsExecute(handler, args) ==
  CASE handler = "CompanyResearchTool.execute" ->
         CompanyResearchTool_execute(args)
    [] handler = "RevenueEngineTool.execute" ->
         RevenueEngineTool_execute(args)
    [] handler = "LinkedInIntelligenceTool.execute" ->
         LinkedInIntelligenceTool_execute(args)
    [] handler = "InterviewPrepTool.execute" ->
         InterviewPrepTool_execute(args)
    [] handler = "ExecutiveBriefTool.execute" ->
         ExecutiveBriefTool_execute(args)
    [] handler = "InterviewPrepTool.create30_60_90Plan" ->
         InterviewPrepTool_execute(args)

\* The method each case of the switch calls.
Execute(handler, args) ==
  CASE handler = "CompanyResearchTool.execute" ->
         CompanyResearchTool_execute(args)
    [] handler = "RevenueEngineTool.execute" ->
         RevenueEngineTool_execute(args)
    [] handler = "LinkedInIntelligenceTool.execute" ->
         LinkedInIntelligenceTool_execute(args)
    [] handler = "InterviewPrepTool.execute" ->
         InterviewPrepTool_execute(args)
    [] handler = "ExecutiveBriefTool.execute" ->
         ExecutiveBriefTool_execute(args)
    [] handler = "InterviewPrepTool.create30_60_90Plan" ->
         InterviewPrepTool_create30_60_90Plan(args)

\* The bindings the handler's destructuring leaves it with.
LocalsOf(handler, args) ==
  CASE handler = "CompanyResearchTool.execute" -> CompanyResearchLocals(args)
    [] handler = "RevenueEngineTool.execute" -> RevenueEngineLocals(args)
    [] handler = "LinkedInIntelligenceTool.execute" ->
         LinkedInIntelligenceLocals(args)
    [] handler = "InterviewPrepTool.execute" -> InterviewPrepLocals(args)
    [] handler = "ExecutiveBriefTool.execute" -> ExecutiveBriefLocals(args)
    [] handler = "InterviewPrepTool.create30_60_90Plan" ->
         Plan30_60_90Locals(args)

\* The body of the try block: what the switch returns or throws.
TryBlock(name, args) ==
  IF HandlerOf(name) = "default"
  THEN Thrown("McpError", "MethodNotFound", <<"Unknown tool: ", name>>)
  ELSE Execute(HandlerOf(name), args)

\* A catch block without the instanceof test: it wraps every error.
CatchBlock_WrapsAll(error) ==
  Thrown("McpError", "InternalError",
         <<"Tool execution failed: ">> \o error.message)

\* A catch block that rethrows whatever it caught.
CatchBlock_Rethrow(error) == error

\* The catch block: an McpError is rethrown, anything else is wrapped.
CatchBlock(error) ==
  IF error.class = "McpError"
  THEN error
  ELSE Thrown("McpError", "InternalError",
              <<"Tool execution failed: ">> \o error.message)

\* The CallToolRequestSchema handler.
CallToolHandler(name, args) ==
  LET r == TryBlock(name, args)
  IN IF r.kind = "thrown" THEN CatchBlock(r) ELSE r

\* A call handler that enters the tool a second time when the first
\* attempt did not succeed.
InvokedBy_RetriesOnFailure(name, args) ==
  IF HandlerOf(name) = "default" THEN <<>>
  ELSE IF Execute(HandlerOf(name), args).kind = "result"
          /\ ~Execute(HandlerOf(name), args).isError
       THEN <<HandlerOf(name)>>
       ELSE <<HandlerOf(name), HandlerOf(name)>>

\* The tool entry points and the DataSources methods entered while serving
\* the call, in order: the switch enters one entry point once, and no
\* entry point calls into DataSources.
InvokedBy(name, args) ==
  IF HandlerOf(name) = "default" THEN <<>> ELSE <<HandlerOf(name)>>

(***************************************************************************)
(* The call requests of the model.                                         *)
(***************************************************************************)
Items == {"a", "b"}
Lists == UNION {[1..m -> Items] : m \in 0..MaxListLen}
ListValues == {Undef, Null, Str("a")} \cup {Arr(l) : l \in Lists}

ArgValues(tool, k) ==
  CASE k = "company" -> {Undef, Str("Acme"), Str("Blue Sky"), Num(42)}
    [] k = "role" -> {Undef, Str("CTO"), Num(7)}
    [] k = "business_model" ->
         {Undef, Num(5)} \cup
         {Str(s) : s \in {"B2B SaaS", "Marketplace", "E-commerce",
                          "Consulting", "constructor"}}
    [] k = "export_data" -> {Undef, Str("/export.zip")}
    [] k = "team_size" -> {Undef, Num(120), Num(0), Str("120")}
    [] k = "extra" -> {Undef, Str("x")}
    [] tool.properties[k].type = "array" -> ListValues
    [] OTHER ->
         {Undef, Str("invalid_value")} \cup
         {Str(e) : e \in Range(tool.properties[k].enum)}

RECURSIVE FieldsOver(_, _)
\* Every assignment of values to the keys ks of the tool.
FieldsOver(tool, ks) ==
  IF Len(ks) = 0 THEN {<<>>}
  ELSE {(ks[1] :> v) @@ f :
          v \in ArgValues(tool, ks[1]), f \in FieldsOver(tool, Tail(ks))}

Bags(tool) ==
  {BagUndefined, BagNull, BagPrimitive} \cup
  {BagObject(f) : f \in FieldsOver(tool, tool.params \o <<"extra">>)}

UnknownNames ==
  {"Research_Company", "EXECUTIVE_BRIEF", "unknown_tool", "research_company "}

Requests ==
  UNION {{[name |-> t.name, args |-> a] : a \in Bags(t)} : t \in Range(TOOLS)}
  \cup
  {[name |-> n, args |-> a] : n \in UnknownNames, a \in Bags(TOOLS[1])}

(***************************************************************************)
(* State: the TOOLS array as it is in memory, the request being served and *)
(* what the server answers to it.                                          *)
(***************************************************************************)
VARIABLES registry, request, response, invoked, locals

\* The caller's record of the exchange before the current one.
VARIABLE memo

\* Start-up: the position of the start-up script, the request handlers set
\* on the Server and the tool objects the constructor has made.
VARIABLES main, handlers, toolObjects

\* The calls in flight, one per slot, each with its own closure.
VARIABLE flight

\* DataSources.scrapeWebsite: the calls in progress and the time in ms.
VARIABLES scrapes, clock

serverVars == <<today, registry, request, response, invoked, locals, memo>>
lifeVars == <<main, handlers, toolObjects>>
scrapeVars == <<scrapes, clock>>
other == <<lifeVars, flight, scrapeVars>>

vars == <<serverVars, lifeVars, flight, scrapeVars>>

NoLocals == <<>>
NoMemo == [kind |-> "none"]

HandlerSchemas == {"tools/list", "tools/call"}
ToolObjects ==
  {"companyResearch", "linkedinIntel", "revenueEngine", "interviewPrep",
   "executiveBrief"}

\* The server is connected to its transport: requests can arrive.
Ready == main = "connected"

Slots == 1..MaxInFlight
FreeSlot == [pc |-> "free"]

ScrapeIds == 1..MaxScrapes
NoScrape == [pc |-> "idle"]

\* The state the server is in before its first request.
Quiet ==
  /\ today = 0
  /\ registry = TOOLS
  /\ request = [kind |-> "none"]
  /\ response = [kind |-> "none"]
  /\ invoked = <<>>
  /\ locals = NoLocals
  /\ memo = NoMemo
  /\ flight = [s \in Slots |-> FreeSlot]
  /\ scrapes = [i \in ScrapeIds |-> NoScrape]
  /\ clock = 0

\* The server constructed and connected.
Init ==
  /\ Quiet
  /\ main = "connected"
  /\ handlers = HandlerSchemas
  /\ toolObjects = ToolObjects

\* A list handler that answers with the catalog minus its last descriptor.
ListTools_DropsLast ==
  /\ request.kind = "none"
  /\ request' = [kind |-> "list"]
  /\ response' = [kind |-> "tools",
                  tools |-> SubSeq(registry, 1, Len(registry) - 1)]
  /\ invoked' = <<>>
  /\ locals' = NoLocals
  /\ UNCHANGED <<today, registry, memo, other>>

\* The ListToolsRequestSchema handler.
ListTools ==
  /\ Ready
  /\ "tools/list" \in handlers
  /\ request.kind = "none"
  /\ request' = [kind |-> "list"]
  /\ response' = [kind |-> "tools", tools |-> registry]
  /\ invoked' = <<>>
  /\ locals' = NoLocals
  /\ UNCHANGED <<today, registry, memo, other>>

\* The CallToolRequestSchema handler serving the call request r.
Serve(r) ==
  /\ Ready
  /\ "tools/call" \in handlers
  /\ request.kind = "none"
  /\ request' = [kind |-> "call", name |-> r.name, args |-> r.args]
  /\ response' = CallToolHandler(r.name, r.args)
  /\ invoked' = InvokedBy(r.name, r.args)
  /\ locals' = IF HandlerOf(r.name) # "default" /\ ~DestructureThrows(r.args)
               THEN LocalsOf(HandlerOf(r.name), r.args)
               ELSE NoLocals
  /\ UNCHANGED <<today, registry, memo, other>>

\* A call handler that registers the called name as one more descriptor.
CallTool_Registers ==
  \E r \in Requests :
    /\ request.kind = "none"
    /\ request' = [kind |-> "call", name |-> r.name, args |-> r.args]
    /\ response' = CallToolHandler(r.name, r.args)
    /\ invoked' = InvokedBy(r.name, r.args)
    /\ locals' = IF HandlerOf(r.name) # "default" /\ ~DestructureThrows(r.args)
                 THEN LocalsOf(HandlerOf(r.name), r.args)
                 ELSE NoLocals
    /\ registry' = IF Len(registry) < 7
                   THEN Append(registry, [registry[1] EXCEPT !.name = r.name])
                   ELSE registry
    /\ UNCHANGED <<today, memo, other>>

\* One call request, of any name and bag, arrives and is served.
CallTool == \E r \in Requests : Serve(r)

\* The answer leaves with the transport; nothing of the exchange is kept.
Reply ==
  /\ request.kind # "none"
  /\ request' = [kind |-> "none"]
  /\ response' = [kind |-> "none"]
  /\ invoked' = <<>>
  /\ locals' = NoLocals
  /\ UNCHANGED <<today, registry, memo, other>>

\* Midnight UTC passes. A call reads the clock once, so the day of a call
\* is the day of that read and midnight falls between two requests.
Tick ==
  /\ request.kind = "none"
  /\ today < MaxDay
  /\ today' = today + 1
  /\ UNCHANGED <<registry, request, response, invoked, locals, memo, other>>

Next == ListTools \/ CallTool \/ Reply \/ Tick

Spec == Init /\ [][Next]_vars

(***************************************************************************)
(* The same server seen by a caller that repeats requests: a few requests  *)
(* per operation, and the caller keeps the exchange before the current     *)
(* one.                                                                    *)
(***************************************************************************)
ProbeFields(tool, f) ==
  [k \in Range(tool.params) \cup {"extra"} |->
     IF k \in DOMAIN f THEN f[k] ELSE Undef]

ProbeBags(tool) ==
  {BagUndefined,
   BagObject(ProbeFields(tool, <<>>)),
   BagObject(ProbeFields(tool, [company |-> Str("Acme")])),
   BagObject(ProbeFields(tool, [company |-> Str("Acme"),
                                role |-> Str("CTO")])),
   BagObject(ProbeFields(tool, [company |-> Num(42), role |-> Str("CTO")]))}

Probes ==
  UNION {{[name |-> t.name, args |-> a] : a \in ProbeBags(t)}
         : t \in Range(TOOLS)}
  \cup
  {[name |-> "unknown_tool", args |-> a] : a \in ProbeBags(TOOLS[1])}

CallProbe == \E r \in Probes : Serve(r)

\* The answer leaves with the transport and the caller keeps it.
ReplyRemember ==
  /\ request.kind # "none"
  /\ memo' = [kind |-> "exchange", request |-> request,
              response |-> response, day |-> today]
  /\ request' = [kind |-> "none"]
  /\ response' = [kind |-> "none"]
  /\ invoked' = <<>>
  /\ locals' = NoLocals
  /\ UNCHANGED <<today, registry, other>>

NextRepeat == ListTools \/ CallProbe \/ ReplyRemember \/ Tick

SpecRepeat == Init /\ [][NextRepeat]_vars

(***************************************************************************)
(* The argument validation the catalog's schemas describe.                 *)
(***************************************************************************)
IsCall == request.kind = "call"
KnownCall == IsCall /\ request.name \in ToolNames
Descriptor == Tool(request.name)
Arg(k) == Get(request.args, k)
Supplied(k) == Arg(k).t # "undefined"
IsResult == response.kind = "result"
IsErrorResult == response.kind = "result" /\ response.isError
IsSuccess == response.kind = "result" /\ ~response.isError
IsThrown == response.kind = "thrown"
Text == response.content[1].text

\* The runtime type of v is the declared type.
TypeMatches(p, v) ==
  \/ p.type = "string" /\ v.t = "string"
  \/ p.type = "number" /\ v.t = "number"
  \/ p.type = "array" /\ v.t = "array"

\* v is one of the values the declaration allows.
EnumAllows(p, v) == p.enum = <<>> \/ (v.t = "string" /\ v.v \in Range(p.enum))

ValidArgs(tool, args) ==
  /\ args.kind = "object"
  /\ \A k \in Range(tool.required) : Get(args, k).t # "undefined"
  /\ \A k \in Range(tool.params) :
       Get(args, k).t # "undefined" =>
         TypeMatches(tool.properties[k], Get(args, k))
         /\ EnumAllows(tool.properties[k], Get(args, k))

C2_MissingRequiredFails ==
  (KnownCall /\ request.args.kind = "object") =>
    \A k \in Range(Descriptor.required) :
      ~Supplied(k) => IsErrorResult /\ Contains(Text, k)

(***************************************************************************)
(* C3                                                                      *)
(***************************************************************************)
\* C3: a call that supplies, for an enum-typed parameter, a value outside
\* the declared set returns a CallResult with isError = true, and a call
\* whose arguments are all valid, an enum value inside the set among them,
\* succeeds.
C3_EnumChecked ==
  KnownCall =>
    \A k \in Range(Descriptor.params) :
      (Descriptor.properties[k].enum # <<>> /\ Supplied(k)) =>
        IF EnumAllows(Descriptor.properties[k], Arg(k))
        THEN ValidArgs(Descriptor, request.args) => IsSuccess
        ELSE IsErrorResult

(***************************************************************************)
(* C4                                                                      *)
(***************************************************************************)
\* C4: a call that supplies a declared parameter with a runtime type other
\* than the declared one returns a CallResult with isError = true whose
\* text names the field.
C4_TypeChecked ==
  KnownCall =>
    \A k \in Range(Descriptor.params) :
      (Supplied(k) /\ ~TypeMatches(Descriptor.properties[k], Arg(k))) =>
        IsErrorResult /\ Contains(Text, k)

(***************************************************************************)
(* C5                                                                      *)
(***************************************************************************)
\* C5: no tool handler is entered for a call whose argument object fails
\* the validation against the operation's schema.
C5_HandlerOnlyAfterValidation ==
  (KnownCall /\ request.args.kind = "object"
   /\ ~ValidArgs(Descriptor, request.args)) => invoked = <<>>

(***************************************************************************)
(* C6                                                                      *)
(***************************************************************************)
\* C6: whenever a handler runs and the call omitted an optional parameter
\* for which the catalog declares a default, the handler's value of that
\* parameter is the catalog's default.
C6_CatalogDefaultsApplied ==
  (KnownCall /\ invoked # <<>> /\ ~DestructureThrows(request.args)) =>
    \A k \in Range(Descriptor.params) :
      (Descriptor.properties[k].default.t # "undefined" /\ ~Supplied(k)) =>
        locals[k] = Descriptor.properties[k].default

\* C6 witness: research_company served with only the company supplied ran
\* with role "VP Engineering".
C6_Witness ==
  /\ IsCall
  /\ request.name = "research_company"
  /\ request.args.kind = "object"
  /\ Arg("company") = Str("Acme")
  /\ ~Supplied("role")
  /\ ~Supplied("focus_areas")
  /\ invoked = <<"CompanyResearchTool.execute">>
  /\ locals.role = Str("VP Engineering")
  /\ IsSuccess

(***************************************************************************)
(* C7                                                                      *)
(***************************************************************************)
\* C7: whenever a handler runs and the argument object omitted a parameter
\* for which the catalog declares no default, the handler's value of that
\* parameter is absent (undefined).
C7_NoSecondDefault ==
  (KnownCall /\ invoked # <<>> /\ request.args.kind = "object") =>
    \A k \in Range(Descriptor.params) :
      (Descriptor.properties[k].default.t = "undefined" /\ ~Supplied(k)) =>
        locals[k].t = "undefined"

(***************************************************************************)
(* C8                                                                      *)
(***************************************************************************)
\* C8: every catalog name is routed to a handler, and a call of it whose
\* arguments are valid (the required ones supplied, the optional ones
\* omitted or valid) returns a successful result.
C8_ValidCallSucceeds ==
  KnownCall =>
    /\ HandlerOf(request.name) # "default"
    /\ ValidArgs(Descriptor, request.args) => IsSuccess

(***************************************************************************)
(* C9                                                                      *)
(***************************************************************************)
\* The text each handler's catch block starts with.
ErrorPrefix(name) ==
  CASE name = "research_company" -> "Error researching "
    [] name = "analyze_revenue_engine" ->
         "Error analyzing revenue engine for "
    [] name = "linkedin_intelligence" ->
         "Error generating LinkedIn intelligence for "
    [] name = "interview_preparation" ->
         "Error generating interview preparation for "
    [] name = "executive_brief" -> "Error generating executive brief for "
    [] name = "create_30_60_90_plan" ->
         "Error generating 30-60-90 day plan for "

\* A handler was entered and did not complete normally.
HandlerFailed == IsCall /\ invoked # <<>> /\ ~IsSuccess

ConcProbes ==
  {[name |-> "research_company",
    args |-> BagObject(ProbeFields(TOOLS[1], [company |-> Str("Acme"),
                                              role |-> Str("CTO")]))],
   [name |-> "research_company",
    args |-> BagObject(ProbeFields(TOOLS[1], [company |-> Num(42)]))],
   [name |-> "research_company", args |-> BagUndefined],
   [name |-> "create_30_60_90_plan",
    args |-> BagObject(ProbeFields(TOOLS[6], [company |-> Str("Acme"),
                                              role |-> Str("CTO"),
                                              team_size |-> Num(120)]))],
   [name |-> "unknown_tool", args |-> BagObject(ProbeFields(TOOLS[1], <<>>))]}

\* What the entry point holds when it first yields: the outcome of the
\* destructuring or of the first awaited step of its try block.
FirstStep(handler, args) ==
  IF DestructureThrows(args)
  THEN [stage |-> "destructure", out |-> Fail(DestructureMessage(args))]
  ELSE LET l == LocalsOf(handler, args)
       IN CASE handler = "CompanyResearchTool.execute" ->
                 [stage |-> "gather", out |-> gatherCompanyData(l.company)]
            [] handler = "RevenueEngineTool.execute" ->
                 [stage |-> "generate",
                  out |-> generateRevenueEngineAnalysis(l.company,
                            l.business_model, l.focus)]
            [] handler = "LinkedInIntelligenceTool.execute" ->
                 [stage |-> "generate",
                  out |-> generateLinkedInIntelligence(l.company, l.role,
                            l.research_depth)]
            [] handler = "InterviewPrepTool.execute" ->
                 [stage |-> "generate",
                  out |-> generateInterviewPreparation(l.company, l.role,
                            l.interview_type, l.focus_areas)]
            [] handler = "ExecutiveBriefTool.execute" ->
                 [stage |-> "generate",
                  out |-> generateExecutiveBrief(l.company, l.role,
                            l.application_stage, l.include_sections)]
            [] handler = "InterviewPrepTool.create30_60_90Plan" ->
                 [stage |-> "generate",
                  out |-> generate30_60_90Plan(l.company, l.role, l.team_size,
                            l.key_challenges, l.focus_style)]

\* The text each catch block starts with.
CatchPrefix(handler) ==
  CASE handler = "CompanyResearchTool.execute" -> "Error researching "
    [] handler = "RevenueEngineTool.execute" ->
         "Error analyzing revenue engine for "
    [] handler = "LinkedInIntelligenceTool.execute" ->
         "Error generating LinkedIn intelligence for "
    [] handler = "InterviewPrepTool.execute" ->
         "Error generating interview preparation for "
    [] handler = "ExecutiveBriefTool.execute" ->
         "Error generating executive brief for "
    [] handler = "InterviewPrepTool.create30_60_90Plan" ->
         "Error generating 30-60-90 day plan for "

\* The rest of the entry point once it is resumed with locals l, and the
\* call handler's own return or catch after it.
Continue(handler, l, pending) ==
  IF pending.stage = "destructure"
  THEN CatchBlock(Thrown("TypeError", "", pending.out.message))
  ELSE LET out == IF pending.stage = "gather" /\ pending.out.ok
                  THEN generateResearchReport(pending.out.text, l.role,
                                              l.focus_areas)
                  ELSE pending.out
       IN IF out.ok
          THEN Returned(out.text, FALSE)
          ELSE Returned(<<CatchPrefix(handler)>> \o ToStringJS(l.company)
                        \o <<": ">> \o out.message, TRUE)

\* An entry point that keeps its arguments in a field of the tool object,
\* which all invocations of that tool share: a resumed invocation finds
\* the locals of the earliest invocation still waiting on that object.
LocalsAt_SharedField(fl, s) ==
  LET same == {t \in Slots :
                 /\ fl[t].pc = "awaiting"
                 /\ fl[t].pending.stage # "destructure"
                 /\ HandlerOf(fl[t].request.name)
                      = HandlerOf(fl[s].request.name)}
  IN IF same = {} THEN fl[s].locals
     ELSE fl[CHOOSE t \in same : \A u \in same : t <= u].locals

\* The locals a resumed invocation reads: those of its own closure.
LocalsAt(fl, s) == fl[s].locals

\* A dispatcher that resumes invocations strictly in order of slot.
CanResume_InOrder(fl, s) ==
  /\ fl[s].pc = "awaiting"
  /\ \A t \in Slots : t < s => fl[t].pc # "awaiting"

\* An invocation can be resumed whenever it is waiting, whatever the
\* other invocations are doing.
CanResume(fl, s) == fl[s].pc = "awaiting"

\* A call request arrives and its handler runs to its first await; the
\* default branch throws before any await.
Enter(s) ==
  \E r \in ConcProbes :
    /\ Ready
    /\ "tools/call" \in handlers
    /\ flight[s].pc = "free"
    /\ flight' =
         [flight EXCEPT ![s] =
            IF HandlerOf(r.name) = "default"
            THEN [pc |-> "returned", request |-> r, day |-> today,
                  response |-> CallToolHandler(r.name, r.args)]
            ELSE [pc |-> "awaiting", request |-> r, day |-> today,
                  locals |-> IF DestructureThrows(r.args) THEN NoLocals
                             ELSE LocalsOf(HandlerOf(r.name), r.args),
                  pending |-> FirstStep(HandlerOf(r.name), r.args)]]
    /\ UNCHANGED <<serverVars, lifeVars, scrapeVars>>

\* The awaited promise has settled and the invocation runs to its end.
Resume(s) ==
  /\ CanResume(flight, s)
  /\ flight' =
       [flight EXCEPT ![s] =
          [pc |-> "returned", request |-> flight[s].request,
           day |-> flight[s].day,
           response |-> Continue(HandlerOf(flight[s].request.name),
                                 LocalsAt(flight, s), flight[s].pending)]]
  /\ UNCHANGED <<serverVars, lifeVars, scrapeVars>>

\* The answer leaves with the transport.
Respond(s) ==
  /\ flight[s].pc = "returned"
  /\ flight' = [flight EXCEPT ![s] = FreeSlot]
  /\ UNCHANGED <<serverVars, lifeVars, scrapeVars>>

\* Midnight UTC passes, whatever is in flight.
Midnight ==
  /\ today < MaxDay
  /\ today' = today + 1
  /\ UNCHANGED <<registry, request, response, invoked, locals, memo, other>>

NextConc ==
  \/ \E s \in Slots : Enter(s) \/ Resume(s) \/ Respond(s)
  \/ Midnight
  \/ ListTools
  \/ Reply

\* The event loop resumes every invocation whose awaited promise has
\* settled. Nothing is assumed of slot 1: its invocation may wait forever.
FairConc == \A s \in Slots \ {1} : WF_vars(Resume(s))

SpecConc == Init /\ [][NextConc]_vars /\ FairConc

(***************************************************************************)
(* Start-up: the script constructs the server, then runs it.               *)
(***************************************************************************)
InitLife ==
  /\ Quiet
  /\ main = "loaded"
  /\ handlers = {}
  /\ toolObjects = {}

\* A constructor that makes the tool objects and forgets setupHandlers.
Construct_NoSetup ==
  /\ main = "loaded"
  /\ main' = "constructed"
  /\ toolObjects' = ToolObjects
  /\ handlers' = handlers
  /\ UNCHANGED <<serverVars, flight, scrapeVars>>

\* new HeadHunterMCPServer(): the Server, the five tool objects, then
\* setupHandlers sets the list and the call handler.
Construct ==
  /\ main = "loaded"
  /\ main' = "constructed"
  /\ toolObjects' = ToolObjects
  /\ handlers' = handlers \cup HandlerSchemas
  /\ UNCHANGED <<serverVars, flight, scrapeVars>>

\* server.run(): the Server is connected to the stdio transport.
Run ==
  /\ main = "constructed"
  /\ main' = "connected"
  /\ UNCHANGED <<handlers, toolObjects, serverVars, flight, scrapeVars>>

NextLife ==
  Construct \/ Run \/ ListTools \/ CallProbe \/ ReplyRemember \/ Tick

SpecLife == InitLife /\ [][NextLife]_vars

\* The lifecycle of the registry.
Lifecycle == IF Ready THEN "Ready" ELSE "Uninitialized"

(***************************************************************************)
(* DataSources.scrapeWebsite. The clock counts milliseconds; each call in  *)
(* progress has its own timer.                                             *)
(***************************************************************************)
RateLimitMs == 1000

\* The clock moves in steps of half the delay.
ClockStep == RateLimitMs \div 2

Urls ==
  {"https://open.example/jobs", "https://plain.example/jobs",
   "https://closed.example/jobs"}

\* What GET /robots.txt of the site of a URL answers: the lines of the file,
\* or a failure when the site has none.
RobotsTxt(url) ==
  CASE url = "https://open.example/jobs" ->
         [ok |-> TRUE, data |-> <<"User-agent: *", "Allow: /">>]
    [] url = "https://plain.example/jobs" -> [ok |-> FALSE]
    [] url = "https://closed.example/jobs" ->
         [ok |-> TRUE, data |-> <<"User-agent: *", "Disallow: /">>]

toLowerCase(line) ==
  CASE line = "User-agent: *" -> "user-agent: *"
    [] line = "Allow: /" -> "allow: /"
    [] line = "Disallow: /" -> "disallow: /"
    [] OTHER -> line

\* Whether a lower-case line includes "disallow: /".
IncludesDisallow(line) == line = "disallow: /"

\* checkRobotsTxt: scraping is allowed unless the lower-cased file includes
\* "disallow: /"; a file that cannot be fetched allows it.
checkRobotsTxt(baseUrl) ==
  LET res == RobotsTxt(baseUrl)
  IN IF ~res.ok THEN TRUE
     ELSE ~\E k \in 1..Len(res.data) : IncludesDisallow(toLowerCase(res.data[k]))

\* scrapeWebsite(url) up to its first await: the timer of delay(1000) is set.
ScrapeStart(i) ==
  \E url \in Urls :
    /\ scrapes[i].pc = "idle"
    /\ scrapes' = [scrapes EXCEPT ![i] =
                     [pc |-> "delaying", url |-> url, started |-> clock]]
    /\ UNCHANGED <<clock, serverVars, lifeVars, flight>>

\* The timer has fired: axios.get(url) is issued.
ScrapeIssue(i) ==
  /\ scrapes[i].pc = "delaying"
  /\ clock >= scrapes[i].started + RateLimitMs
  /\ scrapes' = [scrapes EXCEPT ![i] =
                   [pc |-> "requested", url |-> scrapes[i].url,
                    started |-> scrapes[i].started, issued |-> clock]]
  /\ UNCHANGED <<clock, serverVars, lifeVars, flight>>

\* The request is answered or fails, and the call returns the page record
\* or the error record; neither is kept.
ScrapeReturn(i) ==
  /\ scrapes[i].pc = "requested"
  /\ scrapes' = [scrapes EXCEPT ![i] = NoScrape]
  /\ UNCHANGED <<clock, serverVars, lifeVars, flight>>

\* Time passes.
Advance ==
  /\ clock < MaxClockSteps * ClockStep
  /\ clock' = clock + ClockStep
  /\ UNCHANGED <<scrapes, serverVars, lifeVars, flight>>

NextScrape ==
  \/ \E i \in ScrapeIds : ScrapeStart(i) \/ ScrapeIssue(i) \/ ScrapeReturn(i)
  \/ Advance

SpecScrape == Init /\ [][NextScrape]_vars

(***************************************************************************)
(* C12 .. C15: the catalog.                                                *)
(***************************************************************************)
IsList == request.kind = "list"

NamesOf(tools) == [i \in 1..Len(tools) |-> tools[i].name]

DeclaredOrder ==
  <<"research_company", "analyze_revenue_engine", "linkedin_intelligence",
    "interview_preparation", "executive_brief", "create_30_60_90_plan">>

\* C12: a list request always succeeds and returns the complete catalog in
\* declaration order (research_company, analyze_revenue_engine,
\* linkedin_intelligence, interview_preparation, executive_brief,
\* create_30_60_90_plan); every list request, whatever was called before
\* it and on whatever day, returns that same sequence, and serving it
\* leaves the catalog in memory as it was.
C12_ListReturnsCatalog ==
  IsList =>
    /\ response.kind = "tools"
    /\ NamesOf(response.tools) = DeclaredOrder
    /\ response.tools = TOOLS
    /\ registry = TOOLS

\* C12 witness: a list request was served, after midnight passed, with six
\* descriptors.
C12_Witness ==
  /\ IsList
  /\ today > 0
  /\ response.kind = "tools"
  /\ Len(response.tools) = 6

\* The required sets and the enum parameters of the catalog table.
ExpectedRequired ==
  [research_company |-> {"company"},
   analyze_revenue_engine |-> {"company"},
   linkedin_intelligence |-> {"company"},
   interview_preparation |-> {"company", "role"},
   executive_brief |-> {"company", "role"},
   create_30_60_90_plan |-> {"company", "role"}]

ExpectedEnums ==
  {[tool |-> "analyze_revenue_engine", param |-> "focus",
    allowed |-> {"cost_optimization", "growth_levers", "risk_assessment",
                 "comprehensive"},
    default |-> Str("comprehensive")],
   [tool |-> "linkedin_intelligence", param |-> "research_depth",
    allowed |-> {"basic", "detailed", "comprehensive"},
    default |-> Str("detailed")],
   [tool |-> "interview_preparation", param |-> "interview_type",
    allowed |-> {"technical", "behavioral", "case_study", "comprehensive"},
    default |-> Str("comprehensive")],
   [tool |-> "executive_brief", param |-> "application_stage",
    allowed |-> {"research", "application", "interview", "negotiation"},
    default |-> Str("research")],
   [tool |-> "create_30_60_90_plan", param |-> "focus_style",
    allowed |-> {"transformation", "growth", "optimization", "startup"},
    default |-> Str("growth")]}

\* The enum parameters a descriptor sequence declares.
EnumsOf(tools) ==
  UNION {{[tool |-> tools[i].name, param |-> k,
           allowed |-> Range(tools[i].properties[k].enum),
           default |-> tools[i].properties[k].default]
          : k \in {q \in Range(tools[i].params) :
                     tools[i].properties[q].enum # <<>>}}
         : i \in 1..Len(tools)}

\* C13: the listed catalog holds exactly six operations; company is the
\* one required parameter of research_company, analyze_revenue_engine and
\* linkedin_intelligence, company and role are the required parameters of
\* interview_preparation, executive_brief and create_30_60_90_plan; the
\* enum parameters are focus, research_depth, interview_type,
\* application_stage and focus_style with the allowed sets and defaults of
\* the table.
C13_CatalogTable ==
  IsList =>
    /\ Len(response.tools) = 6
    /\ {response.tools[i].name : i \in 1..6} = DOMAIN ExpectedRequired
    /\ \A i \in 1..6 :
         Range(response.tools[i].required)
           = ExpectedRequired[response.tools[i].name]
    /\ EnumsOf(response.tools) = ExpectedEnums

\* C13 witness: a listed catalog whose sixth descriptor declares the
\* focus_style enum with default growth.
C13_Witness ==
  /\ IsList
  /\ response.tools[6].name = "create_30_60_90_plan"
  /\ response.tools[6].properties.focus_style.default = Str("growth")
  /\ Len(response.tools[6].properties.focus_style.enum) = 4

\* C14: in every reachable state the names of the registry are pairwise
\* distinct and the registry is the catalog it was constructed with: no
\* list or call request adds, removes or alters a descriptor.
C14_RegistryFixed ==
  /\ registry = TOOLS
  /\ \A i, j \in 1..Len(registry) :
       registry[i].name = registry[j].name => i = j

\* C14 witness: a call was dispatched to a handler and the registry still
\* holds its six descriptors.
C14_Witness ==
  /\ IsCall
  /\ invoked # <<>>
  /\ Len(registry) = 6

\* C15: no parameter of any descriptor is both listed in required and
\* given a default.
C15_RequiredHasNoDefault ==
  \A i \in 1..Len(registry) :
    \A k \in Range(registry[i].required) :
      /\ k \in DOMAIN registry[i].properties
      /\ registry[i].properties[k].default = Undef

\* C15 witness: the listed catalog has a descriptor with a required
\* parameter and an optional parameter that declares a default.
C15_Witness ==
  /\ IsList
  /\ \E i \in 1..Len(response.tools) :
       /\ "role" \in Range(response.tools[i].required)
       /\ \E k \in Range(response.tools[i].params) :
            /\ k \notin Range(response.tools[i].required)
            /\ response.tools[i].properties[k].default # Undef

(***************************************************************************)
(* C16: undeclared keys.                                                   *)
(***************************************************************************)
\* The bag of the request without its undeclared key.
WithoutUndeclared ==
  BagObject([request.args.fields EXCEPT !["extra"] = Undef])

\* C16: a call whose bag holds a key the descriptor does not declare gets
\* exactly the answer the same call gets without that key: the key is no
\* error and changes nothing in the result.
C16_UndeclaredIgnored ==
  (KnownCall /\ request.args.kind = "object" /\ Supplied("extra")) =>
    response = CallToolHandler(request.name, WithoutUndeclared)

\* C16 witness: a call carrying an undeclared key succeeded.
C16_Witness ==
  /\ KnownCall
  /\ request.args.kind = "object"
  /\ Supplied("extra")
  /\ IsSuccess

(***************************************************************************)
(* C17: repeated requests.                                                 *)
(***************************************************************************)
\* The call being answered is the one the caller made just before.
Repeated == IsCall /\ memo.kind = "exchange" /\ memo.request = request

\* The text with the date of day from replaced by the date of day to.
Redate(txt, from, to) ==
  [i \in 1..Len(txt) |->
     IF txt[i] = DateISO(from) THEN DateISO(to) ELSE txt[i]]

\* C17 (as amended): the payload of a call is a function of the request
\* and of the UTC day on which it is served. A request repeated on the
\* same day gets the identical answer; a failure is identical on every
\* day; a successful payload carries the date of the day it was made, and
\* repeated on a later day it is the earlier payload with that date
\* replaced. The earlier exchange has no other influence on the later one.
C17_SamePayloadUpToDate ==
  /\ IsSuccess => Contains(Text, DateISO(today))
  /\ Repeated =>
       /\ memo.day = today => response = memo.response
       /\ IF IsSuccess
          THEN /\ memo.response.kind = "result"
               /\ ~memo.response.isError
               /\ Text = Redate(memo.response.content[1].text,
                                memo.day, today)
          ELSE response = memo.response

\* C17 witness: a request answered successfully on one day was repeated on
\* a later day and answered successfully again.
C17_Witness ==
  /\ Repeated
  /\ memo.day < today
  /\ IsSuccess

\* C17 (original): a request dispatched twice, at any two points in time,
\* gets identical payloads.
C17_Original == Repeated => response = memo.response

(***************************************************************************)
(* C18: the shape of a result.                                             *)
(***************************************************************************)
\* With the locals the handler destructured, a statement of its try block
\* throws: a method is called on a value that does not have it.
ThrowsInTry ==
  CASE request.name = "research_company" -> locals.company.t # "string"
    [] request.name = "analyze_revenue_engine" ->
         /\ locals.business_model.t = "string"
         /\ locals.business_model.v \in ObjectPrototypeKeys
    [] request.name = "interview_preparation" ->
         locals.focus_areas.t # "array"
    [] request.name = "create_30_60_90_plan" ->
         locals.key_challenges.t # "array"
    [] OTHER -> FALSE

C19_PlanEchoesArguments ==
  (/\ IsCall
   /\ request.name = "create_30_60_90_plan"
   /\ ValidArgs(Descriptor, request.args)
   /\ Supplied("company") /\ Supplied("role")
   /\ Supplied("team_size") /\ Supplied("focus_style")) =>
    /\ IsSuccess
    /\ Contains(Text, Arg("company").v)
    /\ Contains(Text, Arg("role").v)
    /\ Contains(Text, Arg("focus_style").v)

\* C19 witness: the plan for (Acme, CTO, 120, transformation) was made and
\* names all three.
C19_Witness ==
  /\ IsCall
  /\ request.name = "create_30_60_90_plan"
  /\ Arg("company") = Str("Acme")
  /\ Arg("role") = Str("CTO")
  /\ Arg("team_size") = Num(120)
  /\ Arg("focus_style") = Str("transformation")
  /\ Arg("key_challenges") = Undef
  /\ IsSuccess
  /\ Contains(Text, "transformation")

(***************************************************************************)
(* C20: LinkedIn data, export first.                                       *)
(***************************************************************************)
\* C20: whenever linkedin_intelligence is called with export_data, the
\* export is the source that is used (the export is parsed) and the public
\* lookup is not performed.
C20_ExportFirst ==
  (/\ IsCall
   /\ request.name = "linkedin_intelligence"
   /\ IsResult
   /\ Supplied("export_data")) =>
    /\ gatherLinkedInData(Arg("company"), Arg("export_data"))
         = <<"DataSources.parseLinkedInExport">>
    /\ Contains(invoked, "DataSources.parseLinkedInExport")
    /\ ~Contains(invoked, "DataSources.getPublicLinkedInData")

(***************************************************************************)
(* C11: the kind of a failure.                                             *)
(***************************************************************************)
\* The error kind a response carries: the code of a thrown McpError; a
\* result carries none.
FailureKind ==
  CASE IsThrown -> response.code
    [] IsErrorResult -> "none"
    [] OTHER -> "no failure"

\* C11: a call of an unknown name fails with kind MethodNotFound, a call
\* of a catalog name with arguments the descriptor does not allow fails
\* with kind InvalidParams, so the kind alone tells the two classes apart.
C11_KindsDistinguish ==
  /\ (IsCall /\ request.name \notin ToolNames) =>
       FailureKind = "MethodNotFound"
  /\ (KnownCall /\ ~ValidArgs(Descriptor, request.args)) =>
       FailureKind = "InvalidParams"

(***************************************************************************)
(* C23: no retry.                                                          *)
(***************************************************************************)
\* C23: serving a call enters at most one handler and enters it at most
\* once: exactly once for a catalog name, never for another name, and a
\* handler that failed is not entered a second time.
C23_NoRetry ==
  IsCall =>
    /\ Len(invoked) <= 1
    /\ request.name \in ToolNames <=> Len(invoked) = 1
    /\ ~IsSuccess => Len(invoked) <= 1

\* C23 witness: a handler failed and the call was answered after that one
\* invocation.
C23_Witness ==
  /\ IsCall
  /\ IsErrorResult
  /\ Len(invoked) = 1

(***************************************************************************)
(* C26: advertised names and routed names.                                 *)
(***************************************************************************)
ExpectedHandler ==
  [research_company |-> "CompanyResearchTool.execute",
   analyze_revenue_engine |-> "RevenueEngineTool.execute",
   linkedin_intelligence |-> "LinkedInIntelligenceTool.execute",
   interview_preparation |-> "InterviewPrepTool.execute",
   executive_brief |-> "ExecutiveBriefTool.execute",
   create_30_60_90_plan |-> "InterviewPrepTool.create30_60_90Plan"]

\* The first line of the report each handler writes.
ExpectedTitle ==
  [research_company |-> "# Company Research Report: ",
   analyze_revenue_engine |-> "# Revenue Engine Mapping: ",
   linkedin_intelligence |-> "# LinkedIn Intelligence Report: ",
   interview_preparation |-> "# Interview Preparation Guide: ",
   executive_brief |-> "# Executive Brief: ",
   create_30_60_90_plan |-> "# 30-60-90 Day Plan: "]

\* C26: the names a list request advertises are exactly the names a call
\* routes to a handler, and each is routed to its own handler and answered
\* with that handler's report; an advertised name never reaches the
\* unknown-tool branch and no other name reaches a handler.
C26_AdvertisedIsRouted ==
  /\ IsList =>
       {response.tools[i].name : i \in 1..Len(response.tools)}
         = DOMAIN ExpectedHandler
  /\ IsCall =>
       IF request.name \in DOMAIN ExpectedHandler
       THEN /\ invoked = <<ExpectedHandler[request.name]>>
            /\ ~(IsThrown /\ response.code = "MethodNotFound")
            /\ IsSuccess => Text[1] = ExpectedTitle[request.name]
       ELSE /\ invoked = <<>>
            /\ IsThrown
            /\ response.code = "MethodNotFound"

\* C26 witness: create_30_60_90_plan was routed to create30_60_90Plan and
\* answered with a plan.
C26_Witness ==
  /\ IsCall
  /\ request.name = "create_30_60_90_plan"
  /\ invoked = <<"InterviewPrepTool.create30_60_90Plan">>
  /\ IsSuccess
  /\ Text[1] = "# 30-60-90 Day Plan: "

C28_CatchPreservesKind ==
  (IsCall /\ IsThrown) =>
    /\ response.class = "McpError"
    /\ IF request.name \in ToolNames
       THEN /\ response.code = "InternalError"
            /\ response.message[1] = "Tool execution failed: "
            /\ Tail(response.message) = DestructureMessage(request.args)
       ELSE /\ response.code = "MethodNotFound"
            /\ response.message = <<"Unknown tool: ", request.name>>

\* C28 witness: an unknown name called with a null bag ended in
\* MethodNotFound.
C28_Witness ==
  /\ IsCall
  /\ request.name \notin ToolNames
  /\ request.args.kind = "null"
  /\ IsThrown
  /\ response.code = "MethodNotFound"

(***************************************************************************)
(* C29: team size and challenges in the plan.                              *)
(***************************************************************************)
\* The fragments of the text that follow the label.
AfterLabel(txt, label) ==
  LET i == CHOOSE j \in 1..Len(txt) : txt[j] = label
  IN SubSeq(txt, i + 1, Len(txt))

\* C29: a plan shows the numeric team_size it was given, 0 included, and
\* shows "TBD" only when team_size was omitted; it shows "To be assessed"
\* only when key_challenges was omitted or empty and otherwise lists the
\* challenges in the order given.
C29_PlanShowsTeamAndChallenges ==
  (/\ IsCall
   /\ request.name = "create_30_60_90_plan"
   /\ ValidArgs(Descriptor, request.args)
   /\ IsSuccess) =>
    LET size == AfterLabel(Text, "**Team Size**: ")[1]
        shown == AfterLabel(Text, "**Key Challenges**: ")
    IN /\ Arg("team_size").t = "number" =>
            size = ToString(Arg("team_size").v)
       /\ size = "TBD" => ~Supplied("team_size")
       /\ shown = <<"To be assessed">> =>
            (~Supplied("key_challenges") \/ Arg("key_challenges") = Arr(<<>>))
       /\ (Arg("key_challenges").t = "array"
           /\ Arg("key_challenges").v # <<>>) =>
            shown = Join(Arg("key_challenges").v, ", ")

(***************************************************************************)
(* C30: the business model of the revenue analysis.                        *)
(***************************************************************************)
\* C30: analyze_revenue_engine never fails because of its business_model:
\* the header shows the caller's string; for B2B SaaS, Marketplace and
\* E-commerce the revenue streams, the revenue flow and the system
\* mappings shown are that model's own, and for any other string all
\* three are those of B2B SaaS.
C30_BusinessModelFallback ==
  (/\ IsCall
   /\ request.name = "analyze_revenue_engine"
   /\ ValidArgs(Descriptor, request.args)
   /\ Supplied("business_model")) =>
    /\ IsSuccess
    /\ LET model == Arg("business_model").v
           expected == IF model \in {"B2B SaaS", "Marketplace", "E-commerce"}
                       THEN model ELSE "B2B SaaS"
       IN /\ AfterLabel(Text, "**Business Model**: ")[1] = model
          /\ AfterLabel(Text, "streams:")[1] = expected
          /\ AfterLabel(Text, "flow:")[1] = expected
          /\ AfterLabel(Text, "systems:")[1] = expected

(***************************************************************************)
(* C24: the lifecycle.                                                     *)
(***************************************************************************)
\* C24: the lifecycle is Uninitialized -> Ready with Ready terminal. When
\* the server is Ready, and so whenever a request is being served, the
\* list handler, the call handler and the five tool objects are in place
\* and the catalog is loaded; and once Ready the server stays Ready, with
\* the same handlers and tool objects.
C24_ReadyIsTerminal ==
  /\ [](request.kind # "none" => Lifecycle = "Ready")
  /\ [](Lifecycle = "Ready" =>
          /\ handlers = HandlerSchemas
          /\ toolObjects = ToolObjects
          /\ registry = TOOLS)
  /\ [][Lifecycle = "Ready" =>
          /\ Lifecycle' = "Ready"
          /\ handlers' = handlers
          /\ toolObjects' = toolObjects]_vars

\* C24 witness: a call is being served by a server that was started from
\* the Uninitialized state.
C24_Witness ==
  /\ Lifecycle = "Ready"
  /\ IsCall
  /\ invoked # <<>>
  /\ handlers = HandlerSchemas

(***************************************************************************)
(* C21, C22: calls in flight together.                                     *)
(***************************************************************************)
\* The answer the request gets when it is the only call ever made, on
\* the given day.
SoloAnswer(r, day) ==
  LET a == CallToolHandler(r.name, r.args)
  IN IF a.kind = "result" /\ ~a.isError
     THEN Returned(Redate(a.content[1].text, today, day), FALSE)
     ELSE a

\* C21: an invocation that never completes blocks only its own call. With
\* nothing assumed about the invocation in slot 1, which may wait forever,
\* every call in any other slot that is waiting is eventually resumed and
\* returns; and a list request can be answered in every state in which no
\* list or serial request is being answered, whatever is in flight.
C21_HangBlocksOnlyItself ==
  /\ \A s \in Slots \ {1} :
       (flight[s].pc = "awaiting") ~> (flight[s].pc = "returned")
  /\ [](request.kind = "none" => ENABLED ListTools)

\* C21 witness: the invocation in slot 1 is still waiting while a call in
\* slot 2 has returned successfully and a list request is being answered.
C21_Witness ==
  /\ flight[1].pc = "awaiting"
  /\ flight[2].pc = "returned"
  /\ flight[2].response.kind = "result"
  /\ ~flight[2].response.isError
  /\ IsList
  /\ response.kind = "tools"

\* C22: whatever other calls are in flight and whatever was called
\* before, a call returns the answer it would get as the only call ever
\* made on the day it arrived.
C22_NoInterference ==
  \A s \in Slots :
    flight[s].pc = "returned" =>
      flight[s].response = SoloAnswer(flight[s].request, flight[s].day)

\* C22 witness: two invocations of the same tool object were in flight
\* together for different companies, one has failed into its catch block
\* and the other is still waiting.
C22_Witness ==
  /\ flight[1].pc = "awaiting"
  /\ flight[1].request.name = "research_company"
  /\ Get(flight[1].request.args, "company") = Str("Acme")
  /\ flight[2].pc = "returned"
  /\ flight[2].request.name = "research_company"
  /\ Get(flight[2].request.args, "company") = Num(42)
  /\ flight[2].response.kind = "result"
  /\ flight[2].response.isError

(***************************************************************************)
(* C25: scraping.                                                          *)
(***************************************************************************)
Requested == {i \in ScrapeIds : scrapes[i].pc = "requested"}

\* C25: in every call of scrapeWebsite the HTTP request for the URL is
\* issued only after the rate-limit delay has elapsed since the call began
\* and only if the robots.txt check of the site allows scraping, and the
\* HTTP requests of any two calls, concurrent ones included, are issued at
\* least the rate-limit delay apart.
C25_RateLimitAndRobots ==
  /\ \A i \in Requested :
       /\ scrapes[i].issued >= scrapes[i].started + RateLimitMs
       /\ checkRobotsTxt(scrapes[i].url)
  /\ \A i, j \in Requested :
       i # j => \/ scrapes[i].issued >= scrapes[j].issued + RateLimitMs
                \/ scrapes[j].issued >= scrapes[i].issued + RateLimitMs

=============================================================================
